---- MODULE Spec2Model ----
(***************************************************************************)
(* Model of pyinfra/facts/npm.py: the NpmPackages fact.                    *)
(*                                                                         *)
(*   command(directory)  builds the shell command that lists the packages  *)
(*   process(output)     hands npm_regex and the captured lines to         *)
(*                       parse_packages (pyinfra/facts/util/packaging.py)  *)
(*                                                                         *)
(* Text is modelled as a sequence of one-character strings.  The three     *)
(* box-drawing characters of npm's tree output are written by code point.  *)
(***************************************************************************)
EXTENDS Integers, Sequences, FiniteSets, TLC

\* ------------------------------------------------------------------------
\* Bounds of the model
\* ------------------------------------------------------------------------
MaxLines     == 3   \* lines of one output, sequential specification
MaxHistLines == 2   \* lines of one output, specification with history
MaxConcLines == 2   \* lines of one output, concurrent specification
MaxName      == 2   \* characters of the name part of an enumerated line
MaxVer       == 2   \* characters of the version part of an enumerated line
MaxDirLen    == 2   \* characters of an enumerated directory

Threads == {1, 2}

\* ------------------------------------------------------------------------
\* Characters
\* ------------------------------------------------------------------------
UpRight   == "U+2514"   \* BOX DRAWINGS LIGHT UP AND RIGHT
VertRight == "U+251C"   \* BOX DRAWINGS LIGHT VERTICAL AND RIGHT
Horiz     == "U+2500"   \* BOX DRAWINGS LIGHT HORIZONTAL

Lower == {"a", "b", "c", "d", "e", "f", "g", "h", "i", "j", "k", "l", "m", "n", "o", "p", "q", "r", "s", "t", "u", "v", "w", "x", "y", "z"}
Upper == {"A", "B", "C", "D", "E", "F", "G", "H", "I", "J", "K", "L", "M", "N", "O", "P", "Q", "R", "S", "T", "U", "V", "W", "X", "Y", "Z"}
Digit == {"0", "1", "2", "3", "4", "5", "6", "7", "8", "9"}
\* \s of a unicode pattern, restricted to the ASCII whitespace characters
Whitespace == {" ", "\t", "\n", "\r", "\f"}

SeqsUpTo(S, n) == UNION {[1..k -> S] : k \in 0..n}

\* ------------------------------------------------------------------------
\* The pattern language of npm_regex: a pattern is a sequence of items
\*   bol    ^            eol    $
\*   set    one character of a class, an escaped or a plain literal
\*   plus   class+       (greedy, one or more)
\*   open   (            close  )
\* ------------------------------------------------------------------------
Bol          == [op |-> "bol",   chars |-> {}]
Eol          == [op |-> "eol",   chars |-> {}]
OneOf(S)     == [op |-> "set",   chars |-> S]
Lit(c)       == [op |-> "set",   chars |-> {c}]
OneOrMore(S) == [op |-> "plus",  chars |-> S]
Open         == [op |-> "open",  chars |-> {}]
Close        == [op |-> "close", chars |-> {}]

\* npm_regex without the whitespace item
npm_regex_no_space ==
    << Bol, OneOf({UpRight, VertRight}), Lit(Horiz), Lit(Horiz),
       Open, OneOrMore(Lower \cup Upper \cup Digit \cup {"-"}), Close,
       Lit("@"),
       Open, OneOrMore(Digit \cup {"."}), Close, Eol >>

\* npm_regex with a blank in the place of \s
npm_regex_blank_only ==
    << Bol, OneOf({UpRight, VertRight}), Lit(Horiz), Lit(Horiz), Lit(" "),
       Open, OneOrMore(Lower \cup Upper \cup Digit \cup {"-"}), Close,
       Lit("@"),
       Open, OneOrMore(Digit \cup {"."}), Close, Eol >>

\* npm_regex without the closing $
npm_regex_no_eol ==
    << Bol, OneOf({UpRight, VertRight}), Lit(Horiz), Lit(Horiz), OneOf(Whitespace),
       Open, OneOrMore(Lower \cup Upper \cup Digit \cup {"-"}), Close,
       Lit("@"),
       Open, OneOrMore(Digit \cup {"."}), Close >>

\* npm_regex whose name class lacks the hyphen
npm_regex_no_hyphen ==
    << Bol, OneOf({UpRight, VertRight}), Lit(Horiz), Lit(Horiz), OneOf(Whitespace),
       Open, OneOrMore(Lower \cup Upper \cup Digit), Close,
       Lit("@"),
       Open, OneOrMore(Digit \cup {"."}), Close, Eol >>

\* npm_regex whose second group captures one character only
npm_regex_short_version ==
    << Bol, OneOf({UpRight, VertRight}), Lit(Horiz), Lit(Horiz), OneOf(Whitespace),
       Open, OneOrMore(Lower \cup Upper \cup Digit \cup {"-"}), Close,
       Lit("@"),
       Open, OneOf(Digit \cup {"."}), Close, OneOrMore(Digit \cup {"."}), Eol >>

\* r'^[└├]\─\─\s([a-zA-Z0-9\-]+)@([0-9\.]+)$'
npm_regex ==
    << Bol, OneOf({UpRight, VertRight}), Lit(Horiz), Lit(Horiz), OneOf(Whitespace),
       Open, OneOrMore(Lower \cup Upper \cup Digit \cup {"-"}), Close,
       Lit("@"),
       Open, OneOrMore(Digit \cup {"."}), Close, Eol >>

\* Length of the longest run of characters of S in s that starts at i
RECURSIVE RunLength(_, _, _)
RunLength(s, i, S) ==
    IF i <= Len(s) /\ s[i] \in S THEN 1 + RunLength(s, i + 1, S) ELSE 0

NoMatch == [ok |-> FALSE, groups |-> <<>>]

\* Matching of items k.. of p against s from position i; g holds the
\* <<start, end>> positions of the groups opened so far.
RECURSIVE re_run(_, _, _, _, _)
RECURSIVE re_plus(_, _, _, _, _, _)
re_run(p, k, s, i, g) ==
    IF k > Len(p) THEN [ok |-> TRUE, groups |-> g]
    ELSE LET it == p[k] IN
         CASE it.op = "bol"   -> IF i = 1 THEN re_run(p, k + 1, s, i, g) ELSE NoMatch
           [] it.op = "eol"   -> IF \/ i = Len(s) + 1
                                    \/ (i = Len(s) /\ s[i] = "\n")
                                 THEN re_run(p, k + 1, s, i, g) ELSE NoMatch
           [] it.op = "set"   -> IF i <= Len(s) /\ s[i] \in it.chars
                                 THEN re_run(p, k + 1, s, i + 1, g) ELSE NoMatch
           [] it.op = "plus"  -> re_plus(p, k, s, i, RunLength(s, i, it.chars), g)
           [] it.op = "open"  -> re_run(p, k + 1, s, i, Append(g, <<i, i>>))
           [] it.op = "close" -> re_run(p, k + 1, s, i,
                                        [g EXCEPT ![Len(g)] = <<g[Len(g)][1], i>>])

\* class+ is greedy: the longest run first, then shorter ones
re_plus(p, k, s, i, n, g) ==
    IF n < 1 THEN NoMatch
    ELSE LET r == re_run(p, k + 1, s, i + n, g)
         IN  IF r.ok THEN r ELSE re_plus(p, k, s, i, n - 1, g)

re_match(p, s) == re_run(p, 1, s, 1, <<>>)

group(m, s, n) == SubSeq(s, m.groups[n][1], m.groups[n][2] - 1)

\* A pattern compiles when its parentheses balance
RECURSIVE Depth(_, _, _)
Depth(p, k, d) ==
    IF k > Len(p) THEN d
    ELSE IF p[k].op = "open" THEN Depth(p, k + 1, d + 1)
    ELSE IF p[k].op = "close" THEN (IF d = 0 THEN -1 ELSE Depth(p, k + 1, d - 1))
    ELSE Depth(p, k + 1, d)

re_compiles(p) == Depth(p, 1, 0) = 0


\* ------------------------------------------------------------------------
\* Values: None, a reference to a dict on the heap, a string, a raised
\* exception; Unset is a name that is not bound (yet)
\* ------------------------------------------------------------------------
Unset      == [tag |-> "unset", ref |-> -1, str |-> <<>>]
NoneVal    == [tag |-> "None",  ref |-> -1, str |-> <<>>]
Ref(id)    == [tag |-> "dict",  ref |-> id, str |-> <<>>]
Str(s)     == [tag |-> "str",   ref |-> -1, str |-> s]
Raised(e)  == [tag |-> "raise", ref |-> -1, str |-> <<e>>]

\* `if directory:` is false for None and for the empty string
Truthy(v) == v.tag = "str" /\ Len(v.str) > 0

\* dicts are functions from names to versions
EmptyDict == <<>>
dict_set(d, k, v) == [n \in (DOMAIN d) \cup {k} |-> IF n = k THEN v ELSE d[n]]

\* ------------------------------------------------------------------------
\* class NpmPackages(FactBase)
\* ------------------------------------------------------------------------
\* default = {} : one dict owned by the class, object 0 of the heap
default == 0

\* command = 'npm list -g --depth=0'  (the class attribute the method
\* of the same name rebinds)
command_attr ==
    <<"n", "p", "m", " ", "l", "i", "s", "t", " ", "-", "g", " ",
      "-", "-", "d", "e", "p", "t", "h", "=", "0">>

\* command() that returns the cd form for every directory that is not None
command_cd_unless_none(directory) ==
    IF directory.tag = "str"
    THEN <<"c", "d", " ">> \o directory.str \o
         <<" ", "&", "&", " ", "n", "p", "m", " ", "l", "i", "s", "t", " ",
           "-", "g", " ", "-", "-", "d", "e", "p", "t", "h", "=", "0">>
    ELSE <<"n", "p", "m", " ", "l", "i", "s", "t", " ", "-", "g", " ",
           "-", "-", "d", "e", "p", "t", "h", "=", "0">>

\* def command(self, directory=None)
command(directory) ==
    IF Truthy(directory)
    THEN <<"c", "d", " ">> \o directory.str \o
         <<" ", "&", "&", " ", "n", "p", "m", " ", "l", "i", "s", "t", " ",
           "-", "g", " ", "-", "-", "d", "e", "p", "t", "h", "=", "0">>
    ELSE <<"n", "p", "m", " ", "l", "i", "s", "t", " ", "-", "g", " ",
           "-", "-", "d", "e", "p", "t", "h", "=", "0">>

\* ------------------------------------------------------------------------
\* State
\* ------------------------------------------------------------------------
VARIABLES
    pc,         \* per caller: "idle", "compile", "loop", "parsed", "done"
    kind,       \* per caller: the call in progress or last completed
    pattern,    \* per caller: the regex argument of parse_packages
    output,     \* per caller: the lines argument
    directory,  \* per caller: the directory argument of command
    idx,        \* per caller: lines of output consumed by the loop
    packages,   \* per caller: the local `packages` of parse_packages
    ret,        \* per caller: what the last completed call handed back
    heap,       \* contents of the dict objects
    allocated,  \* the dict objects that are alive
    seen        \* history: one earlier call with its result

vars == <<pc, kind, pattern, output, directory, idx, packages, ret,
          heap, allocated, seen>>

ObjIds == 0..Cardinality(Threads)

NoSeen == [kind |-> "none", pattern |-> <<>>, output |-> <<>>,
           directory |-> Unset, result |-> <<>>, later |-> FALSE]

\* a call ends that is not put on record: it is later than the one on record
Later == IF seen.kind = "none" THEN seen ELSE [seen EXCEPT !.later = TRUE]

Init ==
    /\ pc        = [t \in Threads |-> "idle"]
    /\ kind      = [t \in Threads |-> "none"]
    /\ pattern   = [t \in Threads |-> <<>>]
    /\ output    = [t \in Threads |-> <<>>]
    /\ directory = [t \in Threads |-> Unset]
    /\ idx       = [t \in Threads |-> 0]
    /\ packages  = [t \in Threads |-> Unset]
    /\ ret       = [t \in Threads |-> Unset]
    /\ heap      = [i \in ObjIds |-> EmptyDict]
    /\ allocated = {default}
    /\ seen      = NoSeen

\* the caller lets go of the value v: a dict nobody holds is collected (the
\* class always holds its default)
Collected(v)    == v.tag = "dict" /\ v.ref # default
ReleaseAlloc(v) == IF Collected(v) THEN allocated \ {v.ref} ELSE allocated
ReleaseHeap(v)  == IF Collected(v) THEN [heap EXCEPT ![v.ref] = EmptyDict] ELSE heap

CanCall(t) == pc[t] = "idle"

\* the framework asks for the command string of directory d
command_call(t, d, keep) ==
    /\ pc'        = [pc EXCEPT ![t] = "done"]
    /\ kind'      = [kind EXCEPT ![t] = "command"]
    /\ directory' = [directory EXCEPT ![t] = d]
    /\ ret'       = [ret EXCEPT ![t] = Str(command(d))]
    /\ seen'      = IF keep
                    THEN [NoSeen EXCEPT !.kind = "command", !.directory = d,
                                        !.result = command(d)]
                    ELSE Later
    /\ UNCHANGED <<pattern, output, idx, packages, heap, allocated>>

\* a call of parse_packages(regex, output) begins
EnterParse(t, k, p, out) ==
    /\ pc'        = [pc EXCEPT ![t] = "compile"]
    /\ kind'      = [kind EXCEPT ![t] = k]
    /\ pattern'   = [pattern EXCEPT ![t] = p]
    /\ output'    = [output EXCEPT ![t] = out]
    /\ UNCHANGED <<directory, idx, packages, ret, heap, allocated, seen>>

\* def process(self, output): parse_packages(npm_regex, output)
process(t, outs) ==
    /\ CanCall(t)
    /\ \E out \in outs : EnterParse(t, "process", npm_regex, out)

\* the framework calls parse_packages itself, with a pattern of its own
call_parse_packages(t, pats, outs) ==
    /\ CanCall(t)
    /\ \E p \in pats, out \in outs : EnterParse(t, "parse", p, out)

\* the framework calls command, with one of the directories dirs
call_command(t, dirs, keeps) ==
    /\ CanCall(t)
    /\ \E d \in dirs, keep \in keeps : command_call(t, d, keep)

\* the lowest object that is not alive
FreshId == CHOOSE i \in ObjIds \ allocated : \A j \in ObjIds \ allocated : i <= j

\* parse_packages that compiles the pattern only when it first matches a line
parse_packages_enter_lazy(t) ==
    /\ pc[t] = "compile"
    /\ pc'        = [pc EXCEPT ![t] = "loop"]
    /\ packages'  = [packages EXCEPT ![t] = Ref(FreshId)]
    /\ allocated' = allocated \cup {FreshId}
    /\ heap'      = [heap EXCEPT ![FreshId] = EmptyDict]
    /\ UNCHANGED <<kind, pattern, output, directory, idx, ret, seen>>

\* parse_packages: the pattern is compiled, then packages = {}
parse_packages_enter(t) ==
    /\ pc[t] = "compile"
    /\ IF re_compiles(pattern[t])
       THEN /\ pc'        = [pc EXCEPT ![t] = "loop"]
            /\ packages'  = [packages EXCEPT ![t] = Ref(FreshId)]
            /\ allocated' = allocated \cup {FreshId}
            /\ heap'      = [heap EXCEPT ![FreshId] = EmptyDict]
            /\ ret'       = ret
       ELSE /\ pc'        = [pc EXCEPT ![t] = "done"]
            /\ ret'       = [ret EXCEPT ![t] = Raised("InvalidPatternError")]
            /\ UNCHANGED <<packages, allocated, heap>>
    /\ UNCHANGED <<kind, pattern, output, directory, idx, seen>>

\* parse_packages: one turn of `for line in output`
parse_packages_line(t) ==
    /\ pc[t] = "loop"
    /\ idx[t] < Len(output[t])
    /\ LET line == output[t][idx[t] + 1]
           m    == re_match(pattern[t], line)
           id   == packages[t].ref
       IN  heap' = IF m.ok
                   THEN [heap EXCEPT ![id] = dict_set(heap[id], group(m, line, 1),
                                                      group(m, line, 2))]
                   ELSE heap
    /\ idx' = [idx EXCEPT ![t] = idx[t] + 1]
    /\ UNCHANGED <<pc, kind, pattern, output, directory, packages, ret,
                   allocated, seen>>

\* parse_packages: `return packages`, to the framework or into process
parse_packages_return(t, keep) ==
    /\ pc[t] = "loop"
    /\ idx[t] = Len(output[t])
    /\ IF kind[t] = "parse"
       THEN /\ pc'       = [pc EXCEPT ![t] = "done"]
            /\ ret'      = [ret EXCEPT ![t] = packages[t]]
            /\ packages' = [packages EXCEPT ![t] = Unset]
       ELSE /\ pc'       = [pc EXCEPT ![t] = "parsed"]
            /\ UNCHANGED <<ret, packages>>
    /\ seen' = IF keep
               THEN [NoSeen EXCEPT !.kind = "parse", !.pattern = pattern[t],
                                   !.output = output[t],
                                   !.result = heap[packages[t].ref]]
               ELSE Later
    /\ UNCHANGED <<kind, pattern, output, directory, idx, heap, allocated>>

\* process that keeps what it parsed in the default of the class
process_return_stores(t) ==
    /\ pc[t] = "parsed"
    /\ pc'        = [pc EXCEPT ![t] = "done"]
    /\ ret'       = [ret EXCEPT ![t] = NoneVal]
    /\ packages'  = [packages EXCEPT ![t] = Unset]
    /\ allocated' = ReleaseAlloc(packages[t])
    /\ heap'      = [ReleaseHeap(packages[t]) EXCEPT ![default] = heap[packages[t].ref]]
    /\ UNCHANGED <<kind, pattern, output, directory, idx, seen>>

\* process: the value of the call is an expression statement, the method
\* ends without a return statement
process_return(t) ==
    /\ pc[t] = "parsed"
    /\ pc'        = [pc EXCEPT ![t] = "done"]
    /\ ret'       = [ret EXCEPT ![t] = NoneVal]
    /\ packages'  = [packages EXCEPT ![t] = Unset]
    /\ allocated' = ReleaseAlloc(packages[t])
    /\ heap'      = ReleaseHeap(packages[t])
    /\ UNCHANGED <<kind, pattern, output, directory, idx, seen>>


\* the framework is through with the result of the call and lets go of it
release(t) ==
    /\ pc[t] = "done"
    /\ pc'        = [pc EXCEPT ![t] = "idle"]
    /\ kind'      = [kind EXCEPT ![t] = "none"]
    /\ pattern'   = [pattern EXCEPT ![t] = <<>>]
    /\ output'    = [output EXCEPT ![t] = <<>>]
    /\ directory' = [directory EXCEPT ![t] = Unset]
    /\ idx'       = [idx EXCEPT ![t] = 0]
    /\ ret'       = [ret EXCEPT ![t] = Unset]
    /\ allocated' = ReleaseAlloc(ret[t])
    /\ heap'      = ReleaseHeap(ret[t])
    /\ UNCHANGED <<packages, seen>>

\* ------------------------------------------------------------------------
\* Inputs
\* ------------------------------------------------------------------------
HeaderLine       == <<"/", "u", "s", "r", "/", "l", "o", "c", "a", "l">>
EslintLine       == <<UpRight, Horiz, Horiz, " ", "e", "s", "l", "i", "n", "t", "@", "7", ".", "3", "2", ".", "0">>
TypescriptLine   == <<VertRight, Horiz, Horiz, " ", "t", "y", "p", "e", "s", "c", "r", "i", "p", "t", "@", "4", ".", "5", ".", "4">>
LodashOldLine    == <<UpRight, Horiz, Horiz, " ", "l", "o", "d", "a", "s", "h", "@", "4", ".", "1", ".", "0">>
LodashNewLine    == <<UpRight, Horiz, Horiz, " ", "l", "o", "d", "a", "s", "h", "@", "4", ".", "2", ".", "0">>
LodashOldNoSpace == <<UpRight, Horiz, Horiz, "l", "o", "d", "a", "s", "h", "@", "4", ".", "1", ".", "0">>
LodashNewNoSpace == <<UpRight, Horiz, Horiz, "l", "o", "d", "a", "s", "h", "@", "4", ".", "2", ".", "0">>
LeftPadLine      == <<VertRight, Horiz, Horiz, " ", "l", "e", "f", "t", "-", "p", "a", "d", "@", "1", ".", "3", ".", "0">>
ScopedLine       == <<VertRight, Horiz, Horiz, " ", "@", "b", "a", "b", "e", "l", "/", "c", "o", "r", "e", "@", "7", ".", "0", ".", "0">>
PreReleaseLine   == <<UpRight, Horiz, Horiz, " ", "n", "p", "m", "@", "7", ".", "0", ".", "0", "-", "b", "e", "t", "a">>

SampleLines == {HeaderLine, EslintLine, TypescriptLine, LodashOldLine, LodashNewLine,
                LodashOldNoSpace, LodashNewNoSpace, LeftPadLine, ScopedLine,
                PreReleaseLine}
Outputs     == SeqsUpTo(SampleLines, MaxLines)

HistLines   == {HeaderLine, LodashOldLine, LodashNewLine}
HistOutputs == SeqsUpTo(HistLines, MaxHistLines)

ConcLines   == {LodashOldLine, LodashNewLine}
ConcOutputs == SeqsUpTo(ConcLines, MaxConcLines)

\* npm_regex with the first group left open: it does not compile
unbalanced_regex ==
    << Bol, OneOf({UpRight, VertRight}), Lit(Horiz), Lit(Horiz), OneOf(Whitespace),
       Open, OneOrMore(Lower \cup Upper \cup Digit \cup {"-"}),
       Lit("@"),
       Open, OneOrMore(Digit \cup {"."}), Close, Eol >>

Patterns == {npm_regex, unbalanced_regex}

SrvApp      == <<"/", "s", "r", "v", "/", "a", "p", "p">>
DirChars    == {"/", "a", " "}
Directories == {NoneVal, Str(SrvApp)} \cup {Str(d) : d \in SeqsUpTo(DirChars, MaxDirLen)}
ConcDirs    == {NoneVal, Str(SrvApp)}
ConcPatterns == {npm_regex}

\* lines put together from parts that are right and parts that are wrong
Glyphs       == {<<UpRight>>, <<VertRight>>, <<"|">>, <<>>}
Bars         == {<<Horiz, Horiz>>, <<Horiz>>, <<"-", "-">>}
Gaps         == {<<" ">>, <<"\t">>, <<>>}
NameAlphabet == {"a", "Z", "7", "-", "/"}
Ats          == {<<"@">>, <<>>}
VerAlphabet  == {"1", ".", "b"}
EnumLines    == {g \o b \o w \o n \o a \o v :
                    g \in Glyphs, b \in Bars, w \in Gaps,
                    n \in SeqsUpTo(NameAlphabet, MaxName), a \in Ats,
                    v \in SeqsUpTo(VerAlphabet, MaxVer)}

\* ------------------------------------------------------------------------
\* Specifications
\* ------------------------------------------------------------------------
SeqThreads == {1}

\* one caller, outputs of up to MaxLines sample lines
Next ==
    \/ \E t \in SeqThreads : call_command(t, Directories, {FALSE})
    \/ \E t \in SeqThreads : process(t, Outputs)
    \/ \E t \in SeqThreads : call_parse_packages(t, Patterns, Outputs)
    \/ \E t \in SeqThreads : parse_packages_enter(t)
    \/ \E t \in SeqThreads : parse_packages_line(t)
    \/ \E t \in SeqThreads : parse_packages_return(t, FALSE)
    \/ \E t \in SeqThreads : process_return(t)
    \/ \E t \in SeqThreads : release(t)

Spec == Init /\ [][Next]_vars

\* one caller, and the history of one earlier call
NextHist ==
    \/ \E t \in SeqThreads : call_command(t, Directories, BOOLEAN)
    \/ \E t \in SeqThreads : process(t, HistOutputs)
    \/ \E t \in SeqThreads : call_parse_packages(t, Patterns, HistOutputs)
    \/ \E t \in SeqThreads : parse_packages_enter(t)
    \/ \E t \in SeqThreads : parse_packages_line(t)
    \/ \E t \in SeqThreads, keep \in BOOLEAN : parse_packages_return(t, keep)
    \/ \E t \in SeqThreads : process_return(t)
    \/ \E t \in SeqThreads : release(t)

SpecHist == Init /\ [][NextHist]_vars

\* two callers whose calls interleave line by line
NextConc ==
    \/ \E t \in Threads : call_command(t, ConcDirs, {FALSE})
    \/ \E t \in Threads : process(t, ConcOutputs)
    \/ \E t \in Threads : call_parse_packages(t, ConcPatterns, ConcOutputs)
    \/ \E t \in Threads : parse_packages_enter(t)
    \/ \E t \in Threads : parse_packages_line(t)
    \/ \E t \in Threads : parse_packages_return(t, FALSE)
    \/ \E t \in Threads : process_return(t)
    \/ \E t \in Threads : release(t)

SpecConc == Init /\ [][NextConc]_vars

\* one caller, outputs of one enumerated line
NextLine ==
    \/ \E t \in SeqThreads : process(t, {<<l>> : l \in EnumLines})
    \/ \E t \in SeqThreads : parse_packages_enter(t)
    \/ \E t \in SeqThreads : parse_packages_line(t)
    \/ \E t \in SeqThreads : parse_packages_return(t, FALSE)
    \/ \E t \in SeqThreads : process_return(t)
    \/ \E t \in SeqThreads : release(t)

SpecLine == Init /\ [][NextLine]_vars


\* ------------------------------------------------------------------------
\* What the specification says of a line, stated on the text of the line
\* ------------------------------------------------------------------------
NameChars    == Lower \cup Upper \cup Digit \cup {"-"}
VersionChars == Digit \cup {"."}

\* position a of the '@' that splits a package line into name and version
SplitsAt(l, a) ==
    /\ l[a] = "@"
    /\ \A j \in 5..(a - 1) : l[j] \in NameChars
    /\ \A j \in (a + 1)..Len(l) : l[j] \in VersionChars

IsPackageLine(l) ==
    /\ Len(l) >= 7
    /\ l[1] \in {UpRight, VertRight}
    /\ l[2] = Horiz
    /\ l[3] = Horiz
    /\ l[4] \in Whitespace
    /\ \E a \in 6..(Len(l) - 1) : SplitsAt(l, a)

AtOf(l)      == CHOOSE a \in 6..(Len(l) - 1) : SplitsAt(l, a)
NameOf(l)    == SubSeq(l, 5, AtOf(l) - 1)
VersionOf(l) == SubSeq(l, AtOf(l) + 1, Len(l))

PackageLines(out) == {i \in 1..Len(out) : IsPackageLine(out[i])}
NamesOf(out)      == {NameOf(out[i]) : i \in PackageLines(out)}
LastOf(out, n)    == CHOOSE i \in PackageLines(out) :
                        /\ NameOf(out[i]) = n
                        /\ \A j \in PackageLines(out) : NameOf(out[j]) = n => j <= i
Expected(out)     == [n \in NamesOf(out) |-> VersionOf(out[LastOf(out, n)])]

\* parse_packages has handed its dict back, to process or to the framework
Returned(t) == \/ pc[t] = "parsed"
               \/ pc[t] = "done" /\ kind[t] = "parse" /\ ret[t].tag = "dict"
Result(t)   == IF pc[t] = "parsed" THEN heap[packages[t].ref] ELSE heap[ret[t].ref]

Eslint     == <<"e", "s", "l", "i", "n", "t">>
Typescript == <<"t", "y", "p", "e", "s", "c", "r", "i", "p", "t">>
Lodash     == <<"l", "o", "d", "a", "s", "h">>
V7320      == <<"7", ".", "3", "2", ".", "0">>
V454       == <<"4", ".", "5", ".", "4">>
V420       == <<"4", ".", "2", ".", "0">>
BaseCommand == <<"n", "p", "m", " ", "l", "i", "s", "t", " ", "-", "g", " ", "-", "-", "d", "e", "p", "t", "h", "=", "0">>
CdSrvApp    == <<"c", "d", " ", "/", "s", "r", "v", "/", "a", "p", "p", " ", "&", "&", " ", "n", "p", "m", " ", "l", "i", "s", "t", " ", "-", "g", " ", "-", "-", "d", "e", "p", "t", "h", "=", "0">>

\* ------------------------------------------------------------------------
\* Claims
\* ------------------------------------------------------------------------

\* C1: the dict parse_packages returns for npm_regex has a name exactly for
\* the lines that are package lines, each with the version of such a line,
\* and nothing for the other lines; the output '/usr/local',
\* '(up-right)-- eslint@7.32.0', '(vert-right)-- typescript@4.5.4' gives
\* {eslint: 7.32.0, typescript: 4.5.4}.
C1_ParseKeepsMatchingLines ==
    \A t \in Threads :
        Returned(t) =>
            LET r   == Result(t)
                out == output[t]
            IN  /\ DOMAIN r = NamesOf(out)
                /\ \A n \in DOMAIN r :
                       \E i \in PackageLines(out) :
                           NameOf(out[i]) = n /\ r[n] = VersionOf(out[i])
                /\ out = <<HeaderLine, EslintLine, TypescriptLine>>
                       => r = (Eslint :> V7320 @@ Typescript :> V454)

C1_Witness ==
    \E t \in Threads :
        /\ Returned(t)
        /\ output[t] = <<HeaderLine, EslintLine, TypescriptLine>>
        /\ Cardinality(DOMAIN Result(t)) = 2

\* C2 as stated: a name that matches twice maps to the version of the later
\* line, and the two lines '(up-right)--lodash@4.1.0', '(up-right)--lodash@4.2.0'
\* (no blank after the bars) give {lodash: 4.2.0}.
C2_Original ==
    \A t \in Threads :
        Returned(t) =>
            /\ Result(t) = Expected(output[t])
            /\ output[t] = <<LodashOldNoSpace, LodashNewNoSpace>>
                   => Result(t) = (Lodash :> V420)

\* C2 amended: a name that matches twice maps to the version of the later
\* line; the two lines '(up-right)-- lodash@4.1.0', '(up-right)-- lodash@4.2.0'
\* (a blank after the bars) give {lodash: 4.2.0}, and the same two lines
\* without the blank match nothing and give {}.
C2_LastWriteWins ==
    \A t \in Threads :
        Returned(t) =>
            /\ Result(t) = Expected(output[t])
            /\ output[t] = <<LodashOldLine, LodashNewLine>>
                   => Result(t) = (Lodash :> V420)
            /\ output[t] = <<LodashOldNoSpace, LodashNewNoSpace>>
                   => Result(t) = EmptyDict

C2_Witness ==
    \E t \in Threads :
        /\ Returned(t)
        /\ output[t] = <<LodashOldLine, LodashNewLine>>
        /\ Result(t) = (Lodash :> V420)

\* C3: command returns 'npm list -g --depth=0' for the directory None or '',
\* the same string as the class attribute command, and
\* 'cd d && npm list -g --depth=0' for every other directory d.
C3_CommandString ==
    \A t \in Threads :
        (pc[t] = "done" /\ kind[t] = "command") =>
            /\ ret[t].tag = "str"
            /\ IF directory[t] = NoneVal \/ directory[t] = Str(<<>>)
               THEN ret[t].str = BaseCommand /\ ret[t].str = command_attr
               ELSE ret[t].str = <<"c", "d", " ">> \o directory[t].str
                                     \o <<" ", "&", "&", " ">> \o BaseCommand
            /\ directory[t] = Str(SrvApp) => ret[t].str = CdSrvApp

C3_Witness ==
    \E t \in Threads :
        /\ pc[t] = "done"
        /\ kind[t] = "command"
        /\ directory[t] = Str(<<>>)
        /\ ret[t] = Str(BaseCommand)

\* C4: process hands the parsed mapping back to its caller, not None.
C4_ProcessReturnsMapping ==
    \A t \in Threads :
        (pc[t] = "done" /\ kind[t] = "process") =>
            /\ ret[t].tag = "dict"
            /\ heap[ret[t].ref] = Expected(output[t])

\* C5: when no line of the output is a package line (the output without
\* lines included) parse_packages returns the empty dict, and a call never
\* ends in an error because of the lines: only a pattern that does not
\* compile makes it raise.
C5_NothingMatchesGivesEmpty ==
    \A t \in Threads :
        /\ (Returned(t) /\ PackageLines(output[t]) = {}) => Result(t) = EmptyDict
        /\ (pc[t] = "done" /\ ret[t].tag = "raise") => ~re_compiles(pattern[t])
        /\ (pc[t] = "done" /\ kind[t] = "parse" /\ re_compiles(pattern[t]))
               => ret[t].tag = "dict"

C5_Witness ==
    \E t \in Threads :
        /\ Returned(t)
        /\ output[t] = <<HeaderLine, ScopedLine, PreReleaseLine>>
        /\ Result(t) = EmptyDict

\* C6: a pattern that does not compile makes the call raise
\* InvalidPatternError before any line is looked at: no line is consumed,
\* no dict is made, no pair is recorded.
C6_MalformedPatternRaisesFirst ==
    \A t \in Threads :
        (kind[t] \in {"parse", "process"} /\ ~re_compiles(pattern[t])
         /\ pc[t] # "compile") =>
            /\ pc[t] = "done"
            /\ ret[t] = Raised("InvalidPatternError")
            /\ idx[t] = 0
            /\ packages[t] = Unset
            /\ allocated = {default}

C6_Witness ==
    \E t \in Threads :
        /\ pc[t] = "done"
        /\ pattern[t] = unbalanced_regex
        /\ output[t] = <<EslintLine, TypescriptLine>>
        /\ ret[t] = Raised("InvalidPatternError")

\* C7: for an output of package lines only, the dict has as many entries as
\* there are distinct names among the lines.
C7_SizeIsDistinctNames ==
    \A t \in Threads :
        (Returned(t) /\ PackageLines(output[t]) = 1..Len(output[t])) =>
            Cardinality(DOMAIN Result(t))
                = Cardinality({NameOf(output[t][i]) : i \in 1..Len(output[t])})

C7_Witness ==
    \E t \in Threads :
        /\ Returned(t)
        /\ output[t] = <<LodashOldLine, LeftPadLine, LodashNewLine>>
        /\ Cardinality(DOMAIN Result(t)) = 2

\* C8: a call with the arguments of an earlier call gives the result of the
\* earlier call, whatever was called in between: parse_packages the same
\* dict contents, command the same string; and between calls nothing is
\* left behind: the heap is as it was when the class was made.
C8_SameInputSameResult ==
    /\ \A t \in Threads :
        /\ (Returned(t) /\ seen.kind = "parse" /\ seen.pattern = pattern[t]
            /\ seen.output = output[t]) => Result(t) = seen.result
        /\ (pc[t] = "done" /\ kind[t] = "command" /\ seen.kind = "command"
            /\ seen.directory = directory[t]) => ret[t].str = seen.result
    /\ (\A t \in Threads : pc[t] = "idle") =>
           /\ heap = [i \in ObjIds |-> EmptyDict]
           /\ allocated = {default}

\* a call on two lodash lines has handed back the dict that an earlier
\* call on the same lines is on record with
C8_Witness ==
    \E t \in Threads :
        /\ seen.kind = "parse"
        /\ seen.later
        /\ seen.output = <<LodashOldLine, LodashNewLine>>
        /\ Returned(t)
        /\ output[t] = seen.output
        /\ Result(t) = (Lodash :> V420)

\* C9: under every interleaving the dict of a call is its own: no two
\* callers hold the same dict, none holds the dict of the class, the dict
\* of the class stays empty, and the dict of a call holds what its own
\* lines so far give.
Held(t) == {v.ref : v \in {w \in {packages[t], ret[t]} : w.tag = "dict"}}

C9_CallsDoNotInterfere ==
    /\ heap[default] = EmptyDict
    /\ \A t \in Threads :
        /\ default \notin Held(t)
        /\ \A u \in Threads \ {t} : Held(t) \cap Held(u) = {}
        /\ pc[t] = "loop" =>
               heap[packages[t].ref] = Expected(SubSeq(output[t], 1, idx[t]))
        /\ Returned(t) => Result(t) = Expected(output[t])

C9_Witness ==
    /\ pc[1] = "loop" /\ idx[1] = 1 /\ output[1] = <<LodashOldLine, LodashNewLine>>
    /\ pc[2] = "loop" /\ idx[2] = 1 /\ output[2] = <<LodashNewLine, LodashOldLine>>
    /\ heap[packages[1].ref] # heap[packages[2].ref]

\* C10: under npm_regex a line gives a pair exactly when the whole line is
\* one of the two glyphs, two bars, one whitespace character, a name of
\* letters, digits and hyphens, '@' and a version of digits and dots; the
\* pair is the name and the version as they stand in the line.
C10_LineShape ==
    \A t \in Threads :
        (Returned(t) /\ Len(output[t]) = 1) =>
            LET l == output[t][1]
            IN  IF IsPackageLine(l)
                THEN Result(t) = (NameOf(l) :> VersionOf(l))
                ELSE Result(t) = EmptyDict

C10_Witness ==
    \E t \in Threads :
        /\ Returned(t)
        /\ output[t] = << <<VertRight, Horiz, Horiz, "\t", "a", "-", "@", "1", ".">> >>
        /\ Result(t) = (<<"a", "-">> :> <<"1", ".">>)

====
